---- MODULE Spec2Model ----
(***************************************************************************)
(* Model of package timeutils (interval.go): the half-open interval        *)
(* [Start, End), its predicates, Sub, and the Intervals collection with    *)
(* its sorting Equal and its Swap.                                         *)
(*                                                                         *)
(* A time.Time is modelled by an integer instant; Before, After and Equal  *)
(* of time.Time compare instants, so they are <, > and = here.             *)
(*                                                                         *)
(* Two specifications share the variables:                                 *)
(*   Spec    a caller that builds two intervals with NewInterval and calls *)
(*           the Interval methods on them, and Swap on what Sub returned;  *)
(*   SpecIs  a caller that builds two Intervals values, shuffles them with *)
(*           Swap and compares them with Intervals.Equal.                  *)
(***************************************************************************)
EXTENDS Integers, Sequences, FiniteSets, Bags, TLC

VARIABLES i, other, is, input, out

vars == <<i, other, is, input, out>>

\* Largest instant handed to NewInterval and Include by the caller of Spec.
MaxT == 3
\* Largest index handed to Swap by the caller of Spec.
MaxIdx == 2
\* Largest instant of the intervals the caller of SpecIs puts in a collection.
MaxSeqT == 1
\* Longest collection the caller of SpecIs builds.
MaxLen == 2

Times == 0..MaxT

\* Instants probed when a claim quantifies over every instant: one more on
\* each side than any boundary the model can build.
Instants == (0 - 1)..(MaxT + 1)

SeqTimes == 0..MaxSeqT

Nil == [nil |-> TRUE]

----------------------------------------------------------------------------
(* time.Time comparisons *)

Before(a, b) == a < b

After(a, b) == a > b

TimeEqual(a, b) == a = b

----------------------------------------------------------------------------
(* Interval *)

Interval(start, end) == [Start |-> start, End |-> end]

\* NewInterval that also rejects start = end.
NewIntervalRejectEmpty(start, end) ==
    IF After(start, end) \/ TimeEqual(start, end)
    THEN [panic |-> TRUE, val |-> Nil]
    ELSE [panic |-> FALSE, val |-> Interval(start, end)]

\* NewInterval returns the interval, or panics (no value) when start is
\* after end.
NewInterval(start, end) ==
    IF After(start, end)
    THEN [panic |-> TRUE, val |-> Nil]
    ELSE [panic |-> FALSE, val |-> Interval(start, end)]

Duration(iv) == iv.End - iv.Start

\* Include that takes the end instant in.
IncludeEndInclusive(iv, t) ==
    (Before(iv.Start, t) \/ TimeEqual(iv.Start, t))
        /\ (After(iv.End, t) \/ TimeEqual(iv.End, t))

Include(iv, t) ==
    (Before(iv.Start, t) \/ TimeEqual(iv.Start, t)) /\ After(iv.End, t)

Equal(iv, in) == TimeEqual(iv.Start, in.Start) /\ TimeEqual(iv.End, in.End)

Engulf(iv, in) ==
    (Before(iv.Start, in.Start) \/ TimeEqual(iv.Start, in.Start))
        /\ (After(iv.End, in.End) \/ TimeEqual(iv.End, in.End))

\* Overlap with strict comparisons: touching counts as overlapping.
OverlapStrict(iv, in) ==
    ~(Before(in.End, iv.Start) \/ After(in.Start, iv.End))

Overlap(iv, in) ==
    ~((Before(in.End, iv.Start) \/ TimeEqual(in.End, iv.Start))
        \/ (After(in.Start, iv.End) \/ TimeEqual(in.Start, iv.End)))

\* Contiguous comparing the boundaries of the same side.
ContiguousSameSide(iv, in) ==
    TimeEqual(iv.End, in.End) \/ TimeEqual(iv.Start, in.Start)

Contiguous(iv, in) ==
    TimeEqual(iv.End, in.Start) \/ TimeEqual(iv.Start, in.End)

\* Sub with the first test reduced to input.Equal(i).
SubNoEngulfTest(iv, in) ==
    IF Equal(in, iv)
    THEN << >>
    ELSE IF (Before(in.End, iv.Start) \/ TimeEqual(in.End, iv.Start))
            \/ (After(in.Start, iv.End) \/ TimeEqual(in.Start, iv.End))
    THEN << Interval(iv.Start, iv.End) >>
    ELSE IF Engulf(iv, in)
    THEN IF TimeEqual(iv.Start, in.Start)
         THEN << Interval(in.End, iv.End) >>
         ELSE IF TimeEqual(iv.End, in.End)
         THEN << Interval(iv.Start, in.Start) >>
         ELSE << Interval(iv.Start, in.Start), Interval(in.End, iv.End) >>
    ELSE IF Before(in.Start, iv.Start)
    THEN << Interval(in.End, iv.End) >>
    ELSE << Interval(iv.Start, in.Start) >>

\* Sub whose disjoint test forgets the input that starts at or after the
\* end.
SubNoAfterTest(iv, in) ==
    IF Equal(in, iv) \/ Engulf(in, iv)
    THEN << >>
    ELSE IF Before(in.End, iv.Start) \/ TimeEqual(in.End, iv.Start)
    THEN << Interval(iv.Start, iv.End) >>
    ELSE IF Engulf(iv, in)
    THEN IF TimeEqual(iv.Start, in.Start)
         THEN << Interval(in.End, iv.End) >>
         ELSE IF TimeEqual(iv.End, in.End)
         THEN << Interval(iv.Start, in.Start) >>
         ELSE << Interval(iv.Start, in.Start), Interval(in.End, iv.End) >>
    ELSE IF Before(in.Start, iv.Start)
    THEN << Interval(in.End, iv.End) >>
    ELSE << Interval(iv.Start, in.Start) >>

\* Sub without the i.End.Equal(input.End) branch.
SubNoEndBranch(iv, in) ==
    IF Equal(in, iv) \/ Engulf(in, iv)
    THEN << >>
    ELSE IF (Before(in.End, iv.Start) \/ TimeEqual(in.End, iv.Start))
            \/ (After(in.Start, iv.End) \/ TimeEqual(in.Start, iv.End))
    THEN << Interval(iv.Start, iv.End) >>
    ELSE IF Engulf(iv, in)
    THEN IF TimeEqual(iv.Start, in.Start)
         THEN << Interval(in.End, iv.End) >>
         ELSE << Interval(iv.Start, in.Start), Interval(in.End, iv.End) >>
    ELSE IF Before(in.Start, iv.Start)
    THEN << Interval(in.End, iv.End) >>
    ELSE << Interval(iv.Start, in.Start) >>

\* Sub with the two partial-overlap results exchanged.
SubPartialSwapped(iv, in) ==
    IF Equal(in, iv) \/ Engulf(in, iv)
    THEN << >>
    ELSE IF (Before(in.End, iv.Start) \/ TimeEqual(in.End, iv.Start))
            \/ (After(in.Start, iv.End) \/ TimeEqual(in.Start, iv.End))
    THEN << Interval(iv.Start, iv.End) >>
    ELSE IF Engulf(iv, in)
    THEN IF TimeEqual(iv.Start, in.Start)
         THEN << Interval(in.End, iv.End) >>
         ELSE IF TimeEqual(iv.End, in.End)
         THEN << Interval(iv.Start, in.Start) >>
         ELSE << Interval(iv.Start, in.Start), Interval(in.End, iv.End) >>
    ELSE IF Before(in.Start, iv.Start)
    THEN << Interval(iv.Start, in.Start) >>
    ELSE << Interval(in.End, iv.End) >>

Sub(iv, in) ==
    IF Equal(in, iv) \/ Engulf(in, iv)
    THEN << >>
    ELSE IF (Before(in.End, iv.Start) \/ TimeEqual(in.End, iv.Start))
            \/ (After(in.Start, iv.End) \/ TimeEqual(in.Start, iv.End))
    THEN << Interval(iv.Start, iv.End) >>
    ELSE IF Engulf(iv, in)
    THEN IF TimeEqual(iv.Start, in.Start)
         THEN << Interval(in.End, iv.End) >>
         ELSE IF TimeEqual(iv.End, in.End)
         THEN << Interval(iv.Start, in.Start) >>
         ELSE << Interval(iv.Start, in.Start), Interval(in.End, iv.End) >>
    ELSE IF Before(in.Start, iv.Start)
    THEN << Interval(in.End, iv.End) >>
    ELSE << Interval(iv.Start, in.Start) >>

----------------------------------------------------------------------------
(* Intervals *)

\* The comparison function of Intervals.Equal, without the tie-break on End.
lessStartOnly(a, b) ==
    IF Before(a.Start, b.Start) THEN 0 - 1
    ELSE IF After(a.Start, b.Start) THEN 1
    ELSE 0

less(a, b) ==
    IF Before(a.Start, b.Start) THEN 0 - 1
    ELSE IF After(a.Start, b.Start) THEN 1
    ELSE IF Before(a.End, b.End) THEN 0 - 1
    ELSE IF After(a.End, b.End) THEN 1
    ELSE 0

\* s with the elements at (1-based) positions a and b exchanged.
Exchange(s, a, b) ==
    [k \in 1..Len(s) |-> IF k = a THEN s[b] ELSE IF k = b THEN s[a] ELSE s[k]]

\* is.Swap(a, b) with Go's 0-based indices: an index outside the slice is a
\* run-time panic, raised while the right-hand side is read, before any
\* write.
Swap(s, a, b) ==
    IF a \in 0..(Len(s) - 1) /\ b \in 0..(Len(s) - 1)
    THEN [panic |-> FALSE, val |-> Exchange(s, a + 1, b + 1)]
    ELSE [panic |-> TRUE, val |-> s]

\* slices.SortFunc on a slice of at most 12 elements is an insertion sort:
\* each element in turn is moved down while it compares below its
\* predecessor.
RECURSIVE SiftDown(_, _)
SiftDown(s, j) ==
    IF j > 1 /\ less(s[j], s[j - 1]) < 0
    THEN SiftDown(Exchange(s, j, j - 1), j - 1)
    ELSE s

RECURSIVE InsertFrom(_, _)
InsertFrom(s, k) ==
    IF k > Len(s) THEN s ELSE InsertFrom(SiftDown(s, k), k + 1)

SortFunc(s) == InsertFrom(s, 2)

\* Intervals.Equal that sorts only the receiver.
IntervalsEqualSortsReceiverOnly(a, b) ==
    IF Len(a) # Len(b)
    THEN [val |-> FALSE, is |-> a, input |-> b]
    ELSE LET sa == SortFunc(a)
         IN  [val |-> \A k \in 1..Len(b) : Equal(sa[k], b[k]),
              is |-> sa, input |-> b]

\* Intervals.Equal: the value returned, and the receiver and the argument
\* as the call leaves them.
IntervalsEqual(a, b) ==
    IF Len(a) # Len(b)
    THEN [val |-> FALSE, is |-> a, input |-> b]
    ELSE LET sa == SortFunc(a)
             sb == SortFunc(b)
         IN  [val |-> \A k \in 1..Len(sb) : Equal(sa[k], sb[k]),
              is |-> sa, input |-> sb]

----------------------------------------------------------------------------
(* The callers *)

\* out records the most recent call: its name, its arguments other than
\* the operands held in the variables, what it returned (for Swap: the
\* receiver after the call) and whether it panicked.
Call(op, args, val, panic) ==
    [op |-> op, args |-> args, val |-> val, panic |-> panic]

NoCall == Call("none", << >>, Nil, FALSE)

Init ==
    /\ i = Interval(0, 0)
    /\ other = Interval(0, 0)
    /\ is = << >>
    /\ input = << >>
    /\ out = NoCall

\* i = NewInterval(start, end): a panic leaves i as it was.
NewI(start, end) ==
    LET r == NewInterval(start, end)
    IN  /\ i' = IF r.panic THEN i ELSE r.val
        /\ out' = Call("NewInterval", <<start, end>>, r.val, r.panic)
        /\ UNCHANGED <<other, is, input>>

\* other = NewInterval(start, end)
NewOther(start, end) ==
    LET r == NewInterval(start, end)
    IN  /\ other' = IF r.panic THEN other ELSE r.val
        /\ out' = Call("NewInterval", <<start, end>>, r.val, r.panic)
        /\ UNCHANGED <<i, is, input>>

CallDuration ==
    /\ out' = Call("Duration", << >>, Duration(i), FALSE)
    /\ UNCHANGED <<i, other, is, input>>

CallInclude(t) ==
    /\ out' = Call("Include", <<t>>, Include(i, t), FALSE)
    /\ UNCHANGED <<i, other, is, input>>

CallEqual ==
    /\ out' = Call("Equal", << >>, Equal(i, other), FALSE)
    /\ UNCHANGED <<i, other, is, input>>

CallEngulf ==
    /\ out' = Call("Engulf", << >>, Engulf(i, other), FALSE)
    /\ UNCHANGED <<i, other, is, input>>

CallOverlap ==
    /\ out' = Call("Overlap", << >>, Overlap(i, other), FALSE)
    /\ UNCHANGED <<i, other, is, input>>

CallContiguous ==
    /\ out' = Call("Contiguous", << >>, Contiguous(i, other), FALSE)
    /\ UNCHANGED <<i, other, is, input>>

CallSub ==
    /\ out' = Call("Sub", << >>, Sub(i, other), FALSE)
    /\ UNCHANGED <<i, other, is, input>>

\* r.Swap(a, b) on the Intervals value r that Sub returned (possibly
\* swapped before).
CallSwap(a, b) ==
    /\ out.op \in {"Sub", "Swap"}
    /\ LET r == Swap(out.val, a, b)
       IN  out' = Call("Swap", <<a, b>>, r.val, r.panic)
    /\ UNCHANGED <<i, other, is, input>>

Next ==
    \/ \E start \in Times, end \in Times : NewI(start, end)
    \/ \E start \in Times, end \in Times : NewOther(start, end)
    \/ CallDuration
    \/ \E t \in Times : CallInclude(t)
    \/ CallEqual
    \/ CallEngulf
    \/ CallOverlap
    \/ CallContiguous
    \/ CallSub
    \/ \E a \in 0..MaxIdx, b \in 0..MaxIdx : CallSwap(a, b)

Spec == Init /\ [][Next]_vars

\* is = append(is, NewInterval(start, end)), with start not after end.
AppendIs(start, end) ==
    /\ Len(is) < MaxLen
    /\ ~After(start, end)
    /\ is' = Append(is, NewInterval(start, end).val)
    /\ out' = NoCall
    /\ UNCHANGED <<i, other, input>>

\* input = append(input, NewInterval(start, end)), with start not after end.
AppendInput(start, end) ==
    /\ Len(input) < MaxLen
    /\ ~After(start, end)
    /\ input' = Append(input, NewInterval(start, end).val)
    /\ out' = NoCall
    /\ UNCHANGED <<i, other, is>>

\* One step of rand.Shuffle(len(is), is.Swap): both indices are in range.
ShuffleIs(a, b) ==
    /\ a \in 0..(Len(is) - 1)
    /\ b \in 0..(Len(is) - 1)
    /\ is' = Swap(is, a, b).val
    /\ out' = NoCall
    /\ UNCHANGED <<i, other, input>>

\* is.Equal(input): out keeps the two collections as they were before
\* the call.
CallIntervalsEqual ==
    LET r == IntervalsEqual(is, input)
    IN  /\ is' = r.is
        /\ input' = r.input
        /\ out' = Call("IntervalsEqual", <<is, input>>, r.val, FALSE)
        /\ UNCHANGED <<i, other>>

NextIs ==
    \/ \E start \in SeqTimes, end \in SeqTimes : AppendIs(start, end)
    \/ \E start \in SeqTimes, end \in SeqTimes : AppendInput(start, end)
    \/ \E a \in 0..(MaxLen - 1), b \in 0..(MaxLen - 1) : ShuffleIs(a, b)
    \/ CallIntervalsEqual

SpecIs == Init /\ [][NextIs]_vars

----------------------------------------------------------------------------
(* Vocabulary of the properties, stated on the boundaries themselves and   *)
(* not through the operators above.                                        *)

\* t lies in the half-open range [iv.Start, iv.End).
Covers(iv, t) == iv.Start <= t /\ t < iv.End

\* Touching-is-disjoint: in ends at or before iv's start, or starts at or
\* after iv's end.
Disjoint(iv, in) == in.End <= iv.Start \/ in.Start >= iv.End

\* in reaches from at or before iv's start to at or after iv's end.
Engulfed(iv, in) == in.Start <= iv.Start /\ in.End >= iv.End

\* How many times x occurs in the sequence s.
Count(s, x) == Cardinality({k \in 1..Len(s) : s[k] = x})

Range(s) == {s[k] : k \in 1..Len(s)}

\* s and r hold the same intervals the same number of times.
SameMultiset(s, r) ==
    /\ Len(s) = Len(r)
    /\ \A x \in Range(s) \cup Range(r) : Count(s, x) = Count(r, x)

\* s ascends by Start, and by End where the Starts are equal.
Ascending(s) ==
    \A k \in 1..Len(s), l \in 1..Len(s) :
        k < l => \/ s[k].Start < s[l].Start
                 \/ s[k].Start = s[l].Start /\ s[k].End <= s[l].End

SubCalled == out.op = "Sub"

EqualCalled == out.op = "IntervalsEqual"

----------------------------------------------------------------------------
(* Sub *)

\* C1: an instant is covered by some interval of i.Sub(other) exactly when
\* i covers it and other does not.
C1_SubExact ==
    SubCalled =>
        \A t \in Instants :
            (\E k \in 1..Len(out.val) : Covers(out.val[k], t))
                <=> (Covers(i, t) /\ ~Covers(other, t))

\* C1 witness: a Sub that cut an interior piece out of i, leaving an
\* instant on each side and removing one.
C1_Witness ==
    /\ SubCalled
    /\ Len(out.val) = 2
    /\ \E t \in Instants : Covers(i, t) /\ Covers(other, t)
    /\ \E t \in Instants : Covers(out.val[1], t)
    /\ \E t \in Instants : Covers(out.val[2], t)

\* C2 as stated: whenever other is disjoint from i (touching counts as
\* disjoint), i.Sub(other) is the one-element sequence holding i.
C2_DisjointYieldsSelf ==
    (SubCalled /\ Disjoint(i, other)) => out.val = << i >>

\* C2 amended: whenever other is disjoint from i and does not engulf i,
\* i.Sub(other) is the one-element sequence holding i; when other is
\* disjoint from i and engulfs it (i is zero-length and lies on other's
\* range or boundary), the result is empty.
C2_DisjointNotEngulfedYieldsSelf ==
    (SubCalled /\ Disjoint(i, other)) =>
        /\ ~Engulfed(i, other) => out.val = << i >>
        /\ Engulfed(i, other) => (out.val = << >> /\ i.Start = i.End)

\* C2 witness: a Sub of a disjoint, touching other from a non-empty i
\* that returned i.
C2_Witness ==
    /\ SubCalled
    /\ other.End = i.Start
    /\ other.Start < other.End
    /\ i.Start < i.End
    /\ out.val = << i >>

\* C3: i.Sub(other) is empty exactly when other engulfs i; every other
\* input yields at least one interval, and i.Sub(i) is empty.
C3_EmptyIffEngulfed ==
    SubCalled =>
        /\ (out.val = << >>) <=> Engulfed(i, other)
        /\ ~Engulfed(i, other) => Len(out.val) >= 1
        /\ other = i => out.val = << >>

\* C3 witness: a Sub by an other that is strictly larger than a
\* non-empty i on both sides returned nothing.
C3_Witness ==
    /\ SubCalled
    /\ other.Start < i.Start
    /\ i.Start < i.End
    /\ i.End < other.End
    /\ out.val = << >>

\* C4: i.Sub(other) has two intervals exactly when other lies strictly
\* inside i, and they are then [i.Start, other.Start) and
\* [other.End, i.End); otherwise it has at most one.
C4_TwoIffStrictlyInside ==
    SubCalled =>
        LET inside == i.Start < other.Start /\ other.End < i.End
        IN  /\ (Len(out.val) = 2) <=> inside
            /\ inside => out.val = << Interval(i.Start, other.Start),
                                      Interval(other.End, i.End) >>
            /\ ~inside => Len(out.val) <= 1

\* C4 witness: a Sub by a non-empty other strictly inside i returned the
\* two pieces.
C4_Witness ==
    /\ SubCalled
    /\ i.Start < other.Start
    /\ other.Start < other.End
    /\ other.End < i.End
    /\ out.val = << Interval(i.Start, other.Start), Interval(other.End, i.End) >>

----------------------------------------------------------------------------
(* NewInterval and failure *)

\* What NewInterval returns: the interval for start <= end, a panic and
\* no interval for start > end.
NewIntervalContract ==
    out.op = "NewInterval" =>
        LET start == out.args[1]
            end == out.args[2]
        IN  /\ start <= end =>
                (~out.panic /\ out.val = [Start |-> start, End |-> end])
            /\ start > end => (out.panic /\ out.val = Nil)

\* C6 as stated: NewInterval returns the interval for start <= end and
\* panics for start > end, and no other operation fails.
C6_OnlyNewIntervalFails ==
    /\ NewIntervalContract
    /\ out.panic => out.op = "NewInterval"

\* C6 amended: NewInterval returns the interval for start <= end and
\* panics for start > end; the only other operation that can fail is
\* Swap, which panics exactly when one of its indices is outside the
\* collection.
C6_NewIntervalAndSwapFail ==
    /\ NewIntervalContract
    /\ out.panic => out.op \in {"NewInterval", "Swap"}
    /\ out.op = "Swap" =>
        (out.panic <=> \E k \in 1..2 :
                          out.args[k] < 0 \/ out.args[k] >= Len(out.val))

\* C6 witness: a NewInterval with start > end that panicked and returned
\* no interval.
C6_Witness ==
    /\ out.op = "NewInterval"
    /\ out.args[1] > out.args[2]
    /\ out.panic
    /\ out.val = Nil

----------------------------------------------------------------------------
(* Predicates *)

\* C7 as stated: i.Overlap(i) is true for every valid i, zero-length
\* included.
C7_OverlapReflexive ==
    (out.op = "Overlap" /\ other = i) => out.val = TRUE

\* C7 amended: i.Overlap(i) is true exactly when i is not zero-length
\* (Start < End); a zero-length interval does not overlap itself.
C7_OverlapReflexiveIffNonEmpty ==
    (out.op = "Overlap" /\ other = i) => (out.val <=> i.Start < i.End)

\* C7 witness: an Overlap of a non-empty interval with itself that
\* answered true.
C7_Witness ==
    /\ out.op = "Overlap"
    /\ other = i
    /\ i.Start < i.End
    /\ out.val = TRUE

\* C8: whenever i.Contiguous(other) is true, neither i.Overlap(other) nor
\* other.Overlap(i) is; and Contiguous is true whenever i.End = other.Start.
C8_TouchingNotOverlapping ==
    out.op = "Contiguous" =>
        /\ out.val = TRUE => (~Overlap(i, other) /\ ~Overlap(other, i))
        /\ i.End = other.Start => out.val = TRUE
        /\ out.val = TRUE => (i.End = other.Start \/ i.Start = other.End)

\* C8 witness: a Contiguous of two non-empty intervals, the second
\* starting where the first ends, that answered true.
C8_Witness ==
    /\ out.op = "Contiguous"
    /\ i.Start < i.End
    /\ i.End = other.Start
    /\ other.Start < other.End
    /\ out.val = TRUE

\* C9: i.Include(t) is true exactly when i.Start <= t < i.End; so
\* Include(Start) is true when Start < End, Include(End) is false, and a
\* zero-length interval includes nothing.
C9_IncludeHalfOpen ==
    out.op = "Include" =>
        LET t == out.args[1]
        IN  /\ out.val <=> (i.Start <= t /\ t < i.End)
            /\ (t = i.Start /\ i.Start < i.End) => out.val = TRUE
            /\ t = i.End => out.val = FALSE
            /\ i.Start = i.End => out.val = FALSE

\* C9 witness: an Include of the end of a non-empty interval, answered
\* false.
C9_Witness ==
    /\ out.op = "Include"
    /\ i.Start < i.End
    /\ out.args[1] = i.End
    /\ out.val = FALSE

----------------------------------------------------------------------------
(* Intervals.Equal *)

\* C5: is.Equal(input) is true exactly when the two collections, as they
\* were before the call, hold the same multiset of intervals; so the
\* answer does not depend on either order, and collections that differ in
\* length or in the count of some interval are unequal.
C5_EqualIffSameMultiset ==
    EqualCalled =>
        LET a == out.args[1]
            b == out.args[2]
        IN  /\ out.val <=> SameMultiset(a, b)
            /\ Len(a) # Len(b) => out.val = FALSE
            /\ (\E x \in Range(a) \cup Range(b) : Count(a, x) # Count(b, x))
                    => out.val = FALSE

\* C5 witness: an Equal of two collections of two different intervals
\* each, given in opposite orders, that answered true.
C5_Witness ==
    /\ EqualCalled
    /\ Len(out.args[1]) = 2
    /\ out.args[1][1] # out.args[1][2]
    /\ out.args[2] = << out.args[1][2], out.args[1][1] >>
    /\ out.val = TRUE

\* C10: after is.Equal(input) on collections of equal length, each
\* collection is a permutation of what it was before the call and is
\* sorted ascending by Start, ties broken by End ascending.
C10_EqualOnlyReorders ==
    (EqualCalled /\ Len(out.args[1]) = Len(out.args[2])) =>
        /\ SameMultiset(is, out.args[1])
        /\ SameMultiset(input, out.args[2])
        /\ Ascending(is)
        /\ Ascending(input)

\* C10 witness: an Equal that moved elements of both the receiver and
\* the argument, one of them ordered by the tie-break on End.
C10_Witness ==
    /\ EqualCalled
    /\ Len(out.args[1]) = Len(out.args[2])
    /\ is # out.args[1]
    /\ input # out.args[2]
    /\ \E k \in 1..(Len(is) - 1) :
            is[k].Start = is[k + 1].Start /\ is[k].End < is[k + 1].End

====
